---------------------------- MODULE Spec2Model ----------------------------
(***************************************************************************)
(* A model of the sales backend: the auth gate (user_auth.py) and the      *)
(* sale handlers (sales.py) over the SQLite tables they read and write.    *)
(*                                                                         *)
(* One action per HTTP handler.  Each action is the whole request: the     *)
(* `privileged` wrapper, the handler body, and the commit or rollback the  *)
(* `with get_database() as db:` block performs when it is left.            *)
(***************************************************************************)
EXTENDS Integers, Sequences, FiniteSets, TLC

(***************************************************************************)
(* schema.sql is not among the sources.  The tables and columns are those  *)
(* the handlers' SQL names.  get_database() opens every connection without *)
(* PRAGMA foreign_keys, so whether a foreign key violation raises depends  *)
(* on how the SQLite library was built: foreign_keys is either, fixed for  *)
(* a run.                                                                  *)
(***************************************************************************)
VARIABLES
    foreign_keys,    \* whether the connections enforce FOREIGN KEY clauses
    before_request_funcs, \* app.before_request_funcs[None]
    pending,         \* the requests in flight: what each has read so far
    users,           \* table users
    sales,           \* table sales
    sales_details,   \* table sales_details
    inventory_logs,  \* table inventory_logs
    session,         \* the browser's Flask session (a dict)
    active_tokens,   \* user_auth.active_tokens (a dict token -> identity)
    req,             \* the request handled last
    resp             \* the response it got

vars == <<foreign_keys, before_request_funcs, pending, users, sales, sales_details, inventory_logs,
          session, active_tokens, req, resp>>

(***************************************************************************)
(* Bounds of the model.                                                    *)
(***************************************************************************)
MaxSales == 2

\* rows in sales_details, and rows in inventory_logs
MaxRows == 2

MaxTokens == 2

\* rows in sales where the gate is examined
MaxGateSales == 1

\* the largest row id where requests overlap
MaxId == 3

(***************************************************************************)
(* Python / JSON values as the handlers see them.  A value carries its     *)
(* type, since the handlers test truthiness (`not x`), negate (`-x`) and   *)
(* bind values as SQL parameters, and each of these depends on the type.   *)
(***************************************************************************)
None == [t |-> "None", v |-> 0]

int(n) == [t |-> "int", v |-> n]

\* a non-empty JSON array such as [5]
List1 == [t |-> "list", v |-> 1]

\* bool(x)
Truthy(x) ==
    CASE x.t = "None" -> FALSE
      [] x.t = "int"  -> x.v # 0
      [] x.t = "list" -> x.v # 0

\* sqlite3 binds None and int parameters; a list raises
\* "Error binding parameter: type 'list' is not supported".
Bindable(x) == x.t \in {"None", "int"}

\* the empty dict
EmptyDict == [k \in {} |-> None]

(***************************************************************************)
(* Rows that exist independently of the handlers modelled here.            *)
(***************************************************************************)
CustomerIds == {1, 2}

ProductIds == {1}

\* bcrypt.generate_password_hash / bcrypt.check_password_hash
generate_password_hash(password) == <<"bcrypt", password>>

check_password_hash(hash, password) == hash = generate_password_hash(password)

UserRows ==
    { [id |-> 1, username |-> "dora",  password_hash |-> generate_password_hash("pd"), role |-> "d"],
      [id |-> 2, username |-> "rita",  password_hash |-> generate_password_hash("pr"), role |-> "r"],
      [id |-> 3, username |-> "wim",   password_hash |-> generate_password_hash("pw"), role |-> "w"],
      [id |-> 4, username |-> "admin", password_hash |-> generate_password_hash("admin"), role |-> "a"] }

Identity(u) == [id |-> u.id, username |-> u.username, role |-> u.role]

NoUser == [id |-> 0, username |-> "", role |-> ""]

(***************************************************************************)
(* SQLite.                                                                 *)
(***************************************************************************)
Max(S) == CHOOSE m \in S : \A x \in S : x <= m

\* cursor.lastrowid of an INSERT into a rowid table: one more than the
\* largest rowid present.
lastrowid(table) == IF table = {} THEN 1 ELSE Max({r.id : r \in table}) + 1

\* str(exc) of the IntegrityError SQLite raises for a foreign key violation
\* (the message never names the column), as a sequence of words.
ForeignKeyMessage == <<"FOREIGN", "KEY", "constraint", "failed">>

\* str.lower, word by word
Lower(w) ==
    CASE w = "FOREIGN" -> "foreign"
      [] w = "KEY"     -> "key"
      [] OTHER         -> w

lower(msg) == [i \in DOMAIN msg |-> Lower(msg[i])]

\* `word in msg`
Contains(msg, word) == \E i \in DOMAIN msg : msg[i] = word

\* Connection.__exit__: commit when the block is left without an exception
\* (a `return` inside the block included), roll back when one propagates.
ConnectionExit(committed, working, raised) ==
    IF raised THEN committed ELSE working


(***************************************************************************)
(* user_auth.py: identity resolution and the role gate.                    *)
(***************************************************************************)
\* request.headers.get("Authorization"): absent, or a scheme and a credential
NoHeader == [scheme |-> "", token |-> 0]

Bearer(token) == [scheme |-> "Bearer", token |-> token]

Basic(token) == [scheme |-> "Basic", token |-> token]

\* auth_header and auth_header.startswith("Bearer ")
IsBearer(auth_header) == auth_header.scheme = "Bearer"

\* the identity held by a session that has user_id
SessionUser(sess) ==
    [id |-> sess["user_id"], username |-> sess["username"], role |-> sess["role"]]

\* the identity resolved with the role users holds for its id now, and none
\* once the row is gone
wrapper_user_data_current_role(sess, auth_header, tokens) ==
    LET id  == IF "user_id" \in DOMAIN sess
               THEN sess["user_id"]
               ELSE IF IsBearer(auth_header) /\ auth_header.token \in DOMAIN tokens
                    THEN tokens[auth_header.token].id
                    ELSE 0
        row == {u \in users : u.id = id}
    IN  IF row = {} THEN NoUser ELSE Identity(CHOOSE u \in row : TRUE)

\* privileged.wrapper, lines 62-78: the session first, the token otherwise;
\* NoUser stands for user_data = None
wrapper_user_data(sess, auth_header, tokens) ==
    IF "user_id" \in DOMAIN sess
    THEN SessionUser(sess)
    ELSE IF IsBearer(auth_header) /\ auth_header.token \in DOMAIN tokens
         THEN tokens[auth_header.token]
         ELSE NoUser

\* the match statement with the writer's case admitting every level
RoleCheck_writer_all(role, access) ==
    CASE role = "d" -> [status |-> 403, message |-> "Your authorization was revoked."]
      [] role = "r" -> IF access \notin {"r"}
                       THEN [status |-> 403, message |-> "You may not perform this operation."]
                       ELSE [status |-> 0, message |-> ""]
      [] role = "w" -> IF access \notin {"r", "w", "a"}
                       THEN [status |-> 403, message |-> "You may not perform this operation."]
                       ELSE [status |-> 0, message |-> ""]
      [] role = "a" -> [status |-> 0, message |-> ""]

\* the match statement of privileged.wrapper, lines 82-95: the refusal of
\* `role` at level `access`, or status 0 when the handler is to run
RoleCheck(role, access) ==
    CASE role = "d" -> [status |-> 403, message |-> "Your authorization was revoked."]
      [] role = "r" -> IF access \notin {"r"}
                       THEN [status |-> 403, message |-> "You may not perform this operation."]
                       ELSE [status |-> 0, message |-> ""]
      [] role = "w" -> IF access \notin {"r", "w"}
                       THEN [status |-> 403, message |-> "You may not perform this operation."]
                       ELSE [status |-> 0, message |-> ""]
      [] role = "a" -> [status |-> 0, message |-> ""]

\* the wrapper answering 403 where no identity resolves
privileged_no_401(access, sess, auth_header, tokens) ==
    LET user_data == wrapper_user_data(sess, auth_header, tokens)
    IN  IF user_data = NoUser
        THEN [status |-> 403, message |-> "You may not perform this operation."]
        ELSE RoleCheck(user_data.role, access)

\* privileged(access).wrapper up to the call of the wrapped handler
privileged(access, sess, auth_header, tokens) ==
    LET user_data == wrapper_user_data(sess, auth_header, tokens)
    IN  IF user_data = NoUser
        THEN [status |-> 401, message |-> "You are not authorized."]
        ELSE RoleCheck(user_data.role, access)

\* get_current_user
get_current_user(sess, auth_header, tokens) ==
    IF "user_id" \in DOMAIN sess
    THEN [status |-> 200, message |-> "", user |-> SessionUser(sess)]
    ELSE IF IsBearer(auth_header) /\ auth_header.token \in DOMAIN tokens
         THEN [status |-> 200, message |-> "",
               user |-> [id       |-> tokens[auth_header.token].id,
                         username |-> tokens[auth_header.token].username,
                         role     |-> tokens[auth_header.token].role]]
         ELSE [status |-> 401, message |-> "You have not been authenticated.",
               user |-> NoUser]

(***************************************************************************)
(* sales.py.  A handler works on db, the tables as its connection sees     *)
(* them, and returns the tables it leaves with its response.               *)
(***************************************************************************)
Database == [sales |-> sales, sales_details |-> sales_details,
             inventory_logs |-> inventory_logs]

Response(status, message) ==
    [status |-> status, message |-> message, id |-> 0, token |-> 0,
     user |-> NoUser, rows |-> << >>]

Result(db, status, message, id) ==
    [db |-> db, resp |-> [Response(status, message) EXCEPT !.id = id]]

\* create_sale, lines 164-171: except sqlite3.IntegrityError
IntegrityErrorMessage(exc) ==
    LET msg == lower(exc)
    IN  IF Contains(msg, "customer_id") THEN "Customer does not exist!"
        ELSE IF Contains(msg, "product_id") THEN "Product does not exist!"
        ELSE "Invalid input or constraint violation!"

\* the acting user's id with the token consulted before the session
sale_user_id_token_first(sess, auth_header, tokens) ==
    IF IsBearer(auth_header) /\ auth_header.token \in DOMAIN tokens
    THEN tokens[auth_header.token].id
    ELSE IF "user_id" \in DOMAIN sess
         THEN sess["user_id"]
         ELSE 0

\* create_sale, lines 101-111: the acting user's id, 0 for None
sale_user_id(sess, auth_header, tokens) ==
    IF "user_id" \in DOMAIN sess
    THEN sess["user_id"]
    ELSE IF IsBearer(auth_header) /\ auth_header.token \in DOMAIN tokens
         THEN tokens[auth_header.token].id
         ELSE 0

\* f"Automatic logging from sale #{sale_id}: {note}"
LogNote(sale_id, note) == <<"Automatic logging from sale #", sale_id, note>>

\* -quantity, the delta of the log row (line 151), without the sign
LogDelta_signless(quantity) == quantity.v

\* -quantity, the delta of the log row (line 151)
LogDelta(quantity) == 0 - quantity.v

\* create_sale, lines 128-163: the loop over the remaining details.  Every
\* exit is inside the try block; the tables written so far go with it.
RECURSIVE details_loop(_, _, _, _)
details_loop(fk, sale_id, details, db) ==
    IF details = << >>
    THEN Result(db, 201, "Sale has been created.", sale_id)
    ELSE
    LET item       == Head(details)
        product_id == item.product_id
        quantity   == item.quantity
        subtotal   == item.subtotal_cents
        note       == item.note
        log_id     == IF Truthy(product_id)
                      THEN int(lastrowid(db.inventory_logs)) ELSE None
        log        == [id |-> log_id.v, type |-> "s", product_id |-> product_id,
                       delta |-> LogDelta(quantity),
                       note |-> LogNote(sale_id, note)]
        db1        == IF Truthy(product_id)
                      THEN [db EXCEPT !.inventory_logs = @ \cup {log}]
                      ELSE db
        detail     == [id |-> lastrowid(db.sales_details),
                       subtotal_cents |-> subtotal, sale_id |-> sale_id,
                       log_id |-> log_id, note |-> note]
    IN  IF ~Truthy(subtotal)
        THEN Result(db, 400, "Each detail requires a subtotal!", 0)
        ELSE IF Truthy(product_id) /\ ~Truthy(quantity)
        THEN Result(db, 400,
               "Each detail that contains inventory change must have a quantity!", 0)
        ELSE IF Truthy(product_id) /\ quantity.t # "int"
        THEN \* -quantity raises TypeError
             Result(db, 500, "Server error: bad operand type for unary -", 0)
        ELSE IF Truthy(product_id) /\ ~Bindable(product_id)
        THEN Result(db, 500, "Server error: Error binding parameter", 0)
        ELSE IF Truthy(product_id) /\ fk /\ product_id.v \notin ProductIds
        THEN Result(db, 400, IntegrityErrorMessage(ForeignKeyMessage), 0)
        ELSE IF ~Bindable(subtotal) \/ ~Bindable(note)
        THEN Result(db1, 500, "Server error: Error binding parameter", 0)
        ELSE details_loop(fk, sale_id, Tail(details),
               [db1 EXCEPT !.sales_details = @ \cup {detail}])

\* create_sale, lines 88-176, the body behind @privileged("w")
create_sale_handler(fk, sess, auth_header, tokens, data, db) ==
    LET customer_id == data.customer_id
        details     == data.details
        user_id     == sale_user_id(sess, auth_header, tokens)
        sale_id     == lastrowid(db.sales)
        sale        == [id |-> sale_id, customer_id |-> customer_id,
                        user_id |-> user_id]
        out         == IF fk /\ customer_id.v \notin CustomerIds
                       THEN Result(db, 400, IntegrityErrorMessage(ForeignKeyMessage), 0)
                       ELSE details_loop(fk, sale_id, details,
                                [db EXCEPT !.sales = @ \cup {sale}])
    IN  IF ~Truthy(customer_id)
        THEN Result(db, 400, "A customer is required!", 0)
        ELSE IF details = << >>
        THEN Result(db, 400, "A non-empty list of details is required!", 0)
        ELSE IF user_id = 0
        THEN Result(db, 401, "User authentication failed.", 0)
        ELSE [out EXCEPT !.db = ConnectionExit(db, out.db, FALSE)]

\* update_sale, lines 182-217, the body behind @privileged("w")
update_sale_handler(fk, sale_id, data, db) ==
    LET updated == {IF s.id = sale_id
                    THEN [s EXCEPT !.customer_id = data["customer_id"]]
                    ELSE s : s \in db.sales}
    IN  IF data = EmptyDict
        THEN Result(db, 400, "A JSON body is required!", 0)
        ELSE IF ~\E s \in db.sales : s.id = sale_id
        THEN Result(db, 404, "Sale not found!", 0)
        ELSE IF "customer_id" \notin DOMAIN data
        THEN Result(db, 400, "No valid fields to update!", 0)
        ELSE IF fk /\ data["customer_id"].v \notin CustomerIds
        THEN Result(db, 400, IntegrityErrorMessage(ForeignKeyMessage), 0)
        ELSE Result([db EXCEPT !.sales = updated], 200, "Sale has been updated.", 0)

\* DELETE FROM inventory_logs, left out
DeleteLogs_skipped(logs, log_ids) == logs

\* delete_sale, lines 234-241: DELETE FROM inventory_logs WHERE id IN (log_ids)
DeleteLogs(logs, log_ids) == {l \in logs : l.id \notin log_ids}

\* schema.sql: whether deleting inventory_logs rows that sales_details rows
\* still reference is refused.  The design has delete_sale remove the logs
\* first, then the details, then the header, so it is not.
LogDeleteRefused(fk, log_ids) == FALSE

\* delete_sale, lines 224-233: the log ids of the sale's details.  The
\* SELECT opens no transaction: it reads what is committed when it runs.
delete_sale_select(sale_id, db) ==
    LET rows == {d \in db.sales_details : d.sale_id = sale_id}
    IN  {d.log_id.v : d \in {r \in rows : r.log_id # None}}

\* delete_sale, lines 234-262: the three DELETEs, one transaction that the
\* first of them opens, and the exit of the with block.  Nothing catches an
\* exception here: it leaves the block, and Flask answers 500
delete_sale_deletes(fk, sale_id, log_ids, db) ==
    LET rows    == {d \in db.sales_details : d.sale_id = sale_id}
        logs1   == DeleteLogs(db.inventory_logs, log_ids)
        dets1   == db.sales_details \ rows
        sales1  == {s \in db.sales : s.id # sale_id}
        working == [sales |-> sales1, sales_details |-> dets1,
                    inventory_logs |-> logs1]
        after   == ConnectionExit(db, working, FALSE)
    IN  IF LogDeleteRefused(fk, log_ids)
        THEN Result(ConnectionExit(db, db, TRUE), 500, "Internal Server Error", 0)
        ELSE IF sales1 = db.sales
        THEN Result(after, 404, "Sale is not found!", 0)
        ELSE Result(after, 200, "Sale has been deleted.", 0)

\* delete_sale, lines 223-262, the body behind @privileged("a"), with no
\* other request between its SELECT and its DELETEs
delete_sale_handler(fk, sale_id, db) ==
    delete_sale_deletes(fk, sale_id, delete_sale_select(sale_id, db), db)

\* ORDER BY id
RECURSIVE OrderById(_)
OrderById(rows) ==
    IF rows = {} THEN << >>
    ELSE LET first == CHOOSE r \in rows : \A q \in rows : r.id <= q.id
         IN  <<first>> \o OrderById(rows \ {first})

\* the row with il.delta AS quantity
DetailRow_delta(sd, db) ==
    LET il == {l \in db.inventory_logs : sd.log_id = int(l.id)}
    IN  IF il = {}
        THEN [subtotal_cents |-> sd.subtotal_cents, log_id |-> sd.log_id,
              note |-> sd.note, product_id |-> None, quantity |-> None]
        ELSE LET l == CHOOSE l \in il : TRUE
             IN  [subtotal_cents |-> sd.subtotal_cents, log_id |-> sd.log_id,
                  note |-> sd.note, product_id |-> l.product_id,
                  quantity |-> int(l.delta)]

\* one row of: sales_details sd LEFT JOIN inventory_logs il ON sd.log_id = il.id
DetailRow(sd, db) ==
    LET il == {l \in db.inventory_logs : sd.log_id = int(l.id)}
    IN  IF il = {}
        THEN [subtotal_cents |-> sd.subtotal_cents, log_id |-> sd.log_id,
              note |-> sd.note, product_id |-> None, quantity |-> None]
        ELSE LET l == CHOOSE l \in il : TRUE
             IN  [subtotal_cents |-> sd.subtotal_cents, log_id |-> sd.log_id,
                  note |-> sd.note, product_id |-> l.product_id,
                  quantity |-> int(0 - l.delta)]

SaleRow(head, db) ==
    LET details == OrderById({d \in db.sales_details : d.sale_id = head.id})
    IN  [id |-> head.id, customer_id |-> head.customer_id,
         user_id |-> head.user_id,
         details |-> [i \in DOMAIN details |-> DetailRow(details[i], db)]]

\* get_sale, lines 50-57: the header row, if any
get_sale_head(sale_id, db) == {s \in db.sales : s.id = sale_id}

\* get_sale, lines 59-82: the answer for a header read before, with the
\* details as db has them; a SELECT opens no transaction
get_sale_details(head, db) ==
    IF head = {}
    THEN Response(404, "Sale is not found!")
    ELSE [Response(200, "") EXCEPT
            !.rows = SaleRow(CHOOSE s \in head : TRUE, db)]

\* get_sale, lines 49-82, the body behind @privileged("r"), with no other
\* request between its two SELECTs
get_sale_handler(sale_id, db) ==
    get_sale_details(get_sale_head(sale_id, db), db)

\* get_sales, lines 11-43, the body behind @privileged("r"); the rows as a
\* set: their order is by the time column, which is not modelled
get_sales_handler(db) ==
    [Response(200, "") EXCEPT !.rows = {SaleRow(s, db) : s \in db.sales}]

(***************************************************************************)
(* The requests.                                                           *)
(***************************************************************************)
Request(op, auth_header, sale_id, data) ==
    [op |-> op, cookie |-> session, authorization |-> auth_header,
     sale_id |-> sale_id, data |-> data]

\* a handler behind @privileged(access): refused by the wrapper, or run
Gate(access, auth_header, db, result) ==
    LET refusal == privileged(access, session, auth_header, active_tokens)
    IN  IF refusal.status # 0
        THEN Result(db, refusal.status, refusal.message, 0)
        ELSE result

Commit(db) ==
    /\ sales' = db.sales
    /\ sales_details' = db.sales_details
    /\ inventory_logs' = db.inventory_logs

\* POST /api/sales
create_sale(auth_header, data) ==
    LET out == Gate("w", auth_header, Database,
                 create_sale_handler(foreign_keys, session, auth_header,
                                     active_tokens, data, Database))
    IN  /\ Commit(out.db)
        /\ req' = Request("create_sale", auth_header, 0, data)
        /\ resp' = out.resp
        /\ UNCHANGED <<foreign_keys, before_request_funcs, pending, users, session, active_tokens>>

\* PATCH /api/sales/<sale_id>
update_sale(auth_header, sale_id, data) ==
    LET out == Gate("w", auth_header, Database,
                 update_sale_handler(foreign_keys, sale_id, data, Database))
    IN  /\ Commit(out.db)
        /\ req' = Request("update_sale", auth_header, sale_id, data)
        /\ resp' = out.resp
        /\ UNCHANGED <<foreign_keys, before_request_funcs, pending, users, session, active_tokens>>

\* DELETE /api/sales/<sale_id>
delete_sale(auth_header, sale_id) ==
    LET out == Gate("a", auth_header, Database,
                 delete_sale_handler(foreign_keys, sale_id, Database))
    IN  /\ Commit(out.db)
        /\ req' = Request("delete_sale", auth_header, sale_id, EmptyDict)
        /\ resp' = out.resp
        /\ UNCHANGED <<foreign_keys, before_request_funcs, pending, users, session, active_tokens>>

\* GET /api/sales/<sale_id>
get_sale(auth_header, sale_id) ==
    LET out == Gate("r", auth_header, Database,
                 [db |-> Database, resp |-> get_sale_handler(sale_id, Database)])
    IN  /\ req' = Request("get_sale", auth_header, sale_id, EmptyDict)
        /\ resp' = out.resp
        /\ UNCHANGED <<foreign_keys, before_request_funcs, pending, users, sales, sales_details,
                       inventory_logs, session, active_tokens>>

\* GET /api/sales
get_sales(auth_header) ==
    LET out == Gate("r", auth_header, Database,
                 [db |-> Database, resp |-> get_sales_handler(Database)])
    IN  /\ req' = Request("get_sales", auth_header, 0, EmptyDict)
        /\ resp' = out.resp
        /\ UNCHANGED <<foreign_keys, before_request_funcs, pending, users, sales, sales_details,
                       inventory_logs, session, active_tokens>>

(***************************************************************************)
(* Requests that overlap.  A handler that reads before it writes, or reads *)
(* twice, is two steps: other requests may commit in between.  A write     *)
(* transaction is one step, since SQLite admits one writer at a time and   *)
(* shows its writes to the other connections only when it commits.         *)
(***************************************************************************)
\* the clients whose requests may overlap (app.run serves each request in a
\* thread of its own, each with a connection of its own)
Callers == {1, 2}

Idle == [pc |-> "idle", authorization |-> NoHeader, sale_id |-> 0,
         log_ids |-> {}, head |-> {}]

\* no request in flight
NoPending == [c \in Callers |-> Idle]

\* DELETE /api/sales/<sale_id>, admitted by the wrapper, up to the SELECT
delete_sale_begin(c, auth_header, sale_id) ==
    /\ pending[c].pc = "idle"
    /\ privileged("a", session, auth_header, active_tokens).status = 0
    /\ pending' = [pending EXCEPT ![c] =
                     [pc |-> "delete_sale", authorization |-> auth_header,
                      sale_id |-> sale_id,
                      log_ids |-> delete_sale_select(sale_id, Database),
                      head |-> {}]]
    /\ UNCHANGED <<foreign_keys, before_request_funcs, users, sales,
                   sales_details, inventory_logs, session, active_tokens,
                   req, resp>>

\* DELETE /api/sales/<sale_id>, from the first DELETE to the answer
delete_sale_end(c) ==
    LET p   == pending[c]
        out == delete_sale_deletes(foreign_keys, p.sale_id, p.log_ids, Database)
    IN  /\ p.pc = "delete_sale"
        /\ Commit(out.db)
        /\ req' = Request("delete_sale", p.authorization, p.sale_id, EmptyDict)
        /\ resp' = out.resp
        /\ pending' = [pending EXCEPT ![c] = Idle]
        /\ UNCHANGED <<foreign_keys, before_request_funcs, users, session,
                       active_tokens>>

\* GET /api/sales/<sale_id>, admitted by the wrapper, up to the first SELECT
get_sale_begin(c, auth_header, sale_id) ==
    /\ pending[c].pc = "idle"
    /\ privileged("r", session, auth_header, active_tokens).status = 0
    /\ pending' = [pending EXCEPT ![c] =
                     [pc |-> "get_sale", authorization |-> auth_header,
                      sale_id |-> sale_id, log_ids |-> {},
                      head |-> get_sale_head(sale_id, Database)]]
    /\ UNCHANGED <<foreign_keys, before_request_funcs, users, sales,
                   sales_details, inventory_logs, session, active_tokens,
                   req, resp>>

\* GET /api/sales/<sale_id>, from the second SELECT to the answer
get_sale_end(c) ==
    LET p == pending[c]
    IN  /\ p.pc = "get_sale"
        /\ req' = Request("get_sale", p.authorization, p.sale_id, EmptyDict)
        /\ resp' = get_sale_details(p.head, Database)
        /\ pending' = [pending EXCEPT ![c] = Idle]
        /\ UNCHANGED <<foreign_keys, before_request_funcs, users, sales,
                       sales_details, inventory_logs, session, active_tokens>>

(***************************************************************************)
(* user_auth.py: login, logout, /api/me.                                   *)
(***************************************************************************)
\* the tokens secrets.token_urlsafe(32) can return
Tokens == 1 .. MaxTokens

\* session[key] = value
SetItem(dict, key, value) ==
    [k \in DOMAIN dict \cup {key} |-> IF k = key THEN value ELSE dict[k]]

\* the session written without session.clear() and without username and role
login_session_user_id_only(sess, user) == SetItem(sess, "user_id", user.id)

\* login, lines 131-135
login_session(sess, user) ==
    SetItem(SetItem(SetItem(EmptyDict, "user_id", user.id),
                    "username", user.username),
            "role", user.role)

\* the token stored with the role left at the reader's
login_tokens_role_r(tokens, token, user) ==
    [t \in DOMAIN tokens \cup {token} |->
        IF t = token
        THEN [id |-> user.id, username |-> user.username, role |-> "r"]
        ELSE tokens[t]]

\* the token stored in a table of its own
login_tokens_alone(tokens, token, user) ==
    [t \in {token} |->
        [id |-> user.id, username |-> user.username, role |-> user.role]]

\* login, lines 139-143
login_tokens(tokens, token, user) ==
    [t \in DOMAIN tokens \cup {token} |->
        IF t = token
        THEN [id |-> user.id, username |-> user.username, role |-> user.role]
        ELSE tokens[t]]

\* the check telling an unknown username from a wrong password
login_check_unknown_user(username, password) ==
    LET found == {u \in users : u.username = username}
    IN  IF username = "" THEN Response(400, "A username is required!")
        ELSE IF password = "" THEN Response(400, "A password is required!")
        ELSE IF found = {} THEN Response(401, "Unknown user!")
        ELSE IF ~check_password_hash((CHOOSE u \in found : TRUE).password_hash,
                                     password)
        THEN Response(401, "Invalid credentials!")
        ELSE Response(0, "")

\* login, lines 109-129: the refusal, or status 0 when the credentials match
login_check(username, password) ==
    LET found == {u \in users : u.username = username}
    IN  IF username = "" THEN Response(400, "A username is required!")
        ELSE IF password = "" THEN Response(400, "A password is required!")
        ELSE IF found = {}
                \/ ~check_password_hash((CHOOSE u \in found : TRUE).password_hash,
                                        password)
        THEN Response(401, "Invalid credentials!")
        ELSE Response(0, "")

\* POST /api/login, refused
login_refused(username, password) ==
    /\ login_check(username, password).status # 0
    /\ req' = Request("login", NoHeader, 0,
                      [username |-> username, password |-> password])
    /\ resp' = login_check(username, password)
    /\ UNCHANGED <<foreign_keys, before_request_funcs, pending, users, sales, sales_details, inventory_logs,
                   session, active_tokens>>

\* POST /api/login, credentials matching; token is what token_urlsafe(32)
\* returns: 256 random bits, taken never to repeat
login_accepted(username, password, token) ==
    LET user == CHOOSE u \in users : u.username = username
    IN  /\ login_check(username, password).status = 0
        /\ token \notin DOMAIN active_tokens
        /\ session' = login_session(session, user)
        /\ active_tokens' = login_tokens(active_tokens, token, user)
        /\ req' = Request("login", NoHeader, 0,
                          [username |-> username, password |-> password])
        /\ resp' = [Response(200, "Logged in.") EXCEPT
                      !.user = Identity(user), !.token = token]
        /\ UNCHANGED <<foreign_keys, before_request_funcs, pending, users, sales, sales_details, inventory_logs>>

\* a logout that empties active_tokens too
logout_revoking ==
    /\ session' = EmptyDict
    /\ active_tokens' = EmptyDict
    /\ req' = Request("logout", NoHeader, 0, EmptyDict)
    /\ resp' = Response(200, "Logged out.")
    /\ UNCHANGED <<foreign_keys, before_request_funcs, pending, users, sales,
                   sales_details, inventory_logs>>

\* POST /api/logout
logout ==
    /\ session' = EmptyDict
    /\ req' = Request("logout", NoHeader, 0, EmptyDict)
    /\ resp' = Response(200, "Logged out.")
    /\ UNCHANGED <<foreign_keys, before_request_funcs, pending, users, sales, sales_details, inventory_logs,
                   active_tokens>>

\* GET /api/me
me(auth_header) ==
    LET out == get_current_user(session, auth_header, active_tokens)
    IN  /\ req' = Request("me", auth_header, 0, EmptyDict)
        /\ resp' = [Response(out.status, out.message) EXCEPT !.user = out.user]
        /\ UNCHANGED <<foreign_keys, before_request_funcs, pending, users, sales, sales_details, inventory_logs,
                       session, active_tokens>>

(***************************************************************************)
(* The inputs the requests are drawn from.                                 *)
(***************************************************************************)
Line(product_id, quantity, subtotal_cents) ==
    [product_id |-> product_id, quantity |-> quantity,
     subtotal_cents |-> subtotal_cents, note |-> None]

\* a line selling product 1, a line without product, and the lines the
\* handler refuses or fails on
GoodLine    == Line(int(1), int(2), int(5))
PlainLine   == Line(None, None, int(5))
NoSubtotal  == Line(int(1), int(2), None)
NoQuantity  == Line(int(1), None, int(5))
ZeroQuantity == Line(int(1), int(0), int(5))
NegQuantity == Line(int(1), int(0 - 1), int(5))
NoProduct   == Line(int(9), int(2), int(5))
ListSubtotal == Line(int(1), int(2), List1)

Lines == {GoodLine, PlainLine, NoSubtotal, NoQuantity, ZeroQuantity,
          NegQuantity, NoProduct, ListSubtotal}

\* one line, or a second line after one that passes
DetailLists == {<<a>> : a \in Lines}
                 \cup {<<GoodLine, b>> : b \in Lines}
                 \cup {<<PlainLine, GoodLine>>}

SaleBody(customer_id, details) ==
    [customer_id |-> customer_id, details |-> details]

\* customer 1 with every list of lines; no customer, an unknown customer
\* and no lines once each
SaleBodies == {SaleBody(int(1), d) : d \in DetailLists}
                \cup {SaleBody(None, <<GoodLine>>), SaleBody(int(9), <<GoodLine>>),
                      SaleBody(int(1), << >>)}

UpdateBodies == {[note |-> None], [customer_id |-> int(2)],
                 [customer_id |-> int(9)]}

SaleIds == 1 .. MaxSales

\* no header, another scheme, a token never issued, the tokens
Headers == {NoHeader, Basic(1), Bearer(0)} \cup {Bearer(t) : t \in Tokens}

NoneRequest == [op |-> "", cookie |-> EmptyDict, authorization |-> NoHeader,
                sale_id |-> 0, data |-> EmptyDict]

\* the tables stay within the bounds of the model
WithinBounds ==
    /\ Cardinality(sales') <= MaxSales
    /\ Cardinality(sales_details') <= MaxRows
    /\ Cardinality(inventory_logs') <= MaxRows

(***************************************************************************)
(* The ledger: the sale requests of an administrator who logged in before  *)
(* and presents the token, next to requests without credentials.           *)
(***************************************************************************)
AdminRow == CHOOSE u \in UserRows : u.role = "a"

InitSales ==
    /\ foreign_keys \in BOOLEAN
    /\ before_request_funcs = {}
    /\ pending = NoPending
    /\ users = UserRows
    /\ sales = {}
    /\ sales_details = {}
    /\ inventory_logs = {}
    /\ session = EmptyDict
    /\ active_tokens = login_tokens(EmptyDict, 1, AdminRow)
    /\ req = NoneRequest
    /\ resp = Response(0, "")

NextSales ==
    \/ \E data \in SaleBodies : create_sale(Bearer(1), data) /\ WithinBounds
    \/ create_sale(NoHeader, SaleBody(int(1), <<GoodLine>>))
    \/ \E id \in SaleIds, data \in UpdateBodies : update_sale(Bearer(1), id, data)
    \/ \E id \in SaleIds : delete_sale(Bearer(1), id)
    \/ \E id \in SaleIds : get_sale(Bearer(1), id)

SpecSales == InitSales /\ [][NextSales]_vars

(***************************************************************************)
(* The gate: logins, logouts and requests to every endpoint with every     *)
(* kind of credentials, over a ledger of plain sales.                      *)
(***************************************************************************)
\* each user with the right password, two with a wrong one, an unknown
\* user, and the fields left empty
Credentials ==
    {<<"dora", "pd">>, <<"rita", "pr">>, <<"wim", "pw">>, <<"admin", "admin">>,
     <<"wim", "pr">>, <<"admin", "pd">>,
     <<"nobody", "pw">>, <<"", "pw">>, <<"wim", "">>}

\* foreign_keys as SQLite has it unless built otherwise; the requests of
\* NextAuth violate no foreign key
Init ==
    /\ foreign_keys = FALSE
    /\ before_request_funcs = {}
    /\ pending = NoPending
    /\ users = UserRows
    /\ sales = {}
    /\ sales_details = {}
    /\ inventory_logs = {}
    /\ session = EmptyDict
    /\ active_tokens = EmptyDict
    /\ req = NoneRequest
    /\ resp = Response(0, "")

NextAuth ==
    \/ \E c \in Credentials : login_refused(c[1], c[2])
    \/ \E c \in Credentials, token \in Tokens : login_accepted(c[1], c[2], token)
    \/ logout
    \/ \E h \in Headers : me(h)
    \/ \E h \in Headers :
          /\ create_sale(h, SaleBody(int(1), <<GoodLine>>))
          /\ Cardinality(sales') <= MaxGateSales
    \/ \E h \in Headers : update_sale(h, 1, [customer_id |-> int(1)])
    \/ \E h \in Headers : delete_sale(h, 1)
    \/ \E h \in Headers : get_sale(h, 1)
    \/ \E h \in Headers : get_sales(h)

SpecAuth == Init /\ [][NextAuth]_vars

(***************************************************************************)
(* app.py: init_database, the hook that runs before the first request.     *)
(***************************************************************************)
\* init_database, lines 75-92: the users table the hook leaves
init_database_users(table) ==
    IF Cardinality({u \in table : u.role = "a" \/ u.username = "admin"}) = 0
    THEN table \cup {[id |-> lastrowid(table), username |-> "admin",
                      password_hash |-> generate_password_hash("admin"),
                      role |-> "a"]}
    ELSE table

\* init_database, lines 57-101: it removes itself, then bootstraps
init_database ==
    /\ "init_database" \in before_request_funcs
    /\ before_request_funcs' = before_request_funcs \ {"init_database"}
    /\ users' = init_database_users(users)
    /\ UNCHANGED <<foreign_keys, pending, sales, sales_details,
                   inventory_logs, session, active_tokens, req, resp>>

\* rows a users table may hold when the process starts: the four of
\* UserRows, a writer who took the name admin, an administrator of another
\* name
UserCandidates ==
    UserRows \cup
    { [id |-> 5, username |-> "admin", password_hash |-> generate_password_hash("pw"), role |-> "w"],
      [id |-> 6, username |-> "root", password_hash |-> generate_password_hash("pr"), role |-> "a"] }

\* the tables with no username twice
UserTables ==
    {T \in SUBSET UserCandidates :
        \A u, v \in T : u.username = v.username => u = v}

BootCredentials == {<<"admin", "admin">>, <<"admin", "pw">>, <<"root", "pr">>,
                    <<"wim", "pw">>, <<"wim", "pr">>}

InitBoot ==
    /\ foreign_keys = FALSE
    /\ before_request_funcs = {"init_database"}
    /\ pending = NoPending
    /\ users \in UserTables
    /\ sales = {}
    /\ sales_details = {}
    /\ inventory_logs = {}
    /\ session = EmptyDict
    /\ active_tokens = EmptyDict
    /\ req = NoneRequest
    /\ resp = Response(0, "")

\* the hook, and then logins and /api/me
NextBoot ==
    \/ init_database
    \/ /\ before_request_funcs = {}
       /\ \/ \E c \in BootCredentials : login_refused(c[1], c[2])
          \/ \E c \in BootCredentials : login_accepted(c[1], c[2], 1)
          \/ me(Bearer(1))

SpecBoot == InitBoot /\ [][NextBoot]_vars

(***************************************************************************)
(* Roles that change after a login.  users.py is not among the sources:    *)
(* its update and delete are taken to write the users table and nothing    *)
(* else, as the generic CRUD the design describes.                         *)
(***************************************************************************)
\* PATCH /api/users/<user_id> with a role
update_user(user_id, role) ==
    /\ \E u \in users : u.id = user_id /\ u.role # role
    /\ users' = {IF u.id = user_id THEN [u EXCEPT !.role = role] ELSE u :
                   u \in users}
    /\ req' = [Request("update_user", NoHeader, 0, [role |-> role])
                 EXCEPT !.cookie = EmptyDict]
    /\ resp' = Response(200, "User has been updated.")
    /\ UNCHANGED <<foreign_keys, before_request_funcs, pending, sales,
                   sales_details, inventory_logs, session, active_tokens>>

\* DELETE /api/users/<user_id>
delete_user(user_id) ==
    /\ \E u \in users : u.id = user_id
    /\ users' = {u \in users : u.id # user_id}
    /\ req' = [Request("delete_user", NoHeader, 0, EmptyDict)
                 EXCEPT !.cookie = EmptyDict]
    /\ resp' = Response(200, "User has been deleted.")
    /\ UNCHANGED <<foreign_keys, before_request_funcs, pending, sales,
                   sales_details, inventory_logs, session, active_tokens>>

\* the writer and the administrator log in
RoleCredentials == {<<"wim", "pw">>, <<"admin", "admin">>, <<"wim", "pr">>}

RoleHeaders == {NoHeader} \cup {Bearer(t) : t \in Tokens}

\* logins, logouts, the writer disabled or deleted, the administrator
\* disabled, and requests at the w and a levels
NextRoles ==
    \/ \E c \in RoleCredentials : login_refused(c[1], c[2])
    \/ \E c \in RoleCredentials, token \in Tokens :
          login_accepted(c[1], c[2], token)
    \/ logout
    \/ \E id \in {3, 4} : update_user(id, "d")
    \/ delete_user(3)
    \/ \E h \in RoleHeaders :
          /\ create_sale(h, SaleBody(int(1), <<GoodLine>>))
          /\ Cardinality(sales') <= MaxGateSales
    \/ \E h \in RoleHeaders : delete_sale(h, 1)

SpecRoles == Init /\ [][NextRoles]_vars

(***************************************************************************)
(* Overlap: two clients of the administrator deleting and reading sales    *)
(* while sales are created.  Every create here is one that succeeds.       *)
(***************************************************************************)
RaceDetails == {<<GoodLine>>, <<PlainLine, GoodLine>>}

\* the tables and the row ids stay within the bounds of the model
RaceWithinBounds ==
    /\ WithinBounds
    /\ \A r \in sales' \cup sales_details' \cup inventory_logs' : r.id <= MaxId

\* the administrator logged in from both clients; client c presents token c
InitRace ==
    /\ foreign_keys = FALSE
    /\ before_request_funcs = {}
    /\ pending = NoPending
    /\ users = UserRows
    /\ sales = {}
    /\ sales_details = {}
    /\ inventory_logs = {}
    /\ session = EmptyDict
    /\ active_tokens = login_tokens(login_tokens(EmptyDict, 1, AdminRow),
                                    2, AdminRow)
    /\ req = NoneRequest
    /\ resp = Response(0, "")

NextRace ==
    \/ \E d \in RaceDetails :
          create_sale(Bearer(1), SaleBody(int(1), d)) /\ RaceWithinBounds
    \/ \E c \in Callers, id \in SaleIds : delete_sale_begin(c, Bearer(c), id)
    \/ \E c \in Callers : delete_sale_end(c)
    \/ \E c \in Callers, id \in SaleIds : get_sale_begin(c, Bearer(c), id)
    \/ \E c \in Callers : get_sale_end(c)

SpecRace == InitRace /\ [][NextRace]_vars

(***************************************************************************)
(* Properties of the ledger, checked under SpecSales.                      *)
(***************************************************************************)
\* the wrapper let the request through to the handler
Admitted == resp.status \notin {401, 403}

ProductLines(details) == {i \in DOMAIN details : Truthy(details[i].product_id)}

\* C1: a create_sale request answered with anything but 201 leaves sales,
\* sales_details and inventory_logs exactly as they were.
C1_FailedCreateWritesNothing ==
    [][(req'.op = "create_sale" /\ resp'.status # 201)
         => UNCHANGED <<sales, sales_details, inventory_logs>>]_vars

\* the rows a create_sale answered with 201 adds, for C2
CreatedRows(nDetails) ==
    LET lines      == req'.data.details
        newSales   == sales' \ sales
        newDetails == sales_details' \ sales_details
        newLogs    == inventory_logs' \ inventory_logs
    IN  /\ sales \subseteq sales'
        /\ sales_details \subseteq sales_details'
        /\ inventory_logs \subseteq inventory_logs'
        /\ Cardinality(newSales) = 1
        /\ \A s \in newSales : s.id = resp'.id
        /\ Cardinality(newLogs) = Cardinality(ProductLines(lines))
        /\ Cardinality(newDetails) = nDetails
        /\ \A d \in newDetails : d.sale_id = resp'.id
        /\ \E f \in [ProductLines(lines) -> newLogs] :
              /\ \A i, j \in ProductLines(lines) : f[i] = f[j] => i = j
              /\ \A i \in ProductLines(lines) :
                    /\ f[i].type = "s"
                    /\ f[i].product_id = lines[i].product_id
                    /\ f[i].delta = 0 - lines[i].quantity.v

\* C2, as claimed: a create_sale answered with 201 whose request has N lines
\* referencing a product adds one sales row with the returned id, exactly N
\* inventory_logs rows and exactly N sales_details rows; each new log has
\* type 's', the product of its line and delta = -quantity of its line.
C2_NLogsNDetails ==
    [][(req'.op = "create_sale" /\ resp'.status = 201)
         => CreatedRows(Cardinality(ProductLines(req'.data.details)))]_vars

\* C2, amended: ... exactly N inventory_logs rows, and one sales_details row
\* for every line of the request (N of them carry a log id; the others,
\* for the lines without product, carry none).
C2_NLogsOneDetailPerLine ==
    [][(req'.op = "create_sale" /\ resp'.status = 201)
         => /\ CreatedRows(Len(req'.data.details))
            /\ Cardinality({d \in sales_details' \ sales_details : d.log_id # None})
                 = Cardinality(ProductLines(req'.data.details))]_vars

\* a 201 for a request that mixes a line with product and one without
C2_Witness ==
    /\ req.op = "create_sale"
    /\ resp.status = 201
    /\ req.data.details = <<GoodLine, PlainLine>>
    /\ Cardinality({d \in sales_details : d.sale_id = resp.id}) = 2
    /\ Cardinality(inventory_logs) = 1

\* C3: every sales_details row with a log_id references an existing
\* inventory_logs row that no other detail references, every sales_details
\* row belongs to an existing sales row, and every inventory_logs row written
\* by create_sale (type 's') is referenced by exactly one sales_details row.
C3_LedgerInvariant ==
    /\ \A d \in sales_details :
          /\ \E s \in sales : s.id = d.sale_id
          /\ d.log_id # None =>
                /\ \E l \in inventory_logs : l.id = d.log_id.v
                /\ \A e \in sales_details : e.log_id = d.log_id => e = d
    /\ \A l \in inventory_logs :
          l.type = "s" =>
             Cardinality({d \in sales_details : d.log_id = int(l.id)}) = 1

\* C4: delete_sale on an existing sale id removes the sale row, its
\* sales_details rows and the inventory_logs rows those referenced, and leaves
\* the rows of every other sale as they were; delete_sale on an id that is
\* not (or no longer) there answers 404 and changes nothing.
C4_DeleteCascade ==
    [][(req'.op = "delete_sale" /\ resp'.status \notin {401, 403})
         => LET id   == req'.sale_id
                mine == {d \in sales_details : d.sale_id = id}
            IN  IF \E s \in sales : s.id = id
                THEN /\ resp'.status = 200
                     /\ sales' = {s \in sales : s.id # id}
                     /\ sales_details' = sales_details \ mine
                     /\ inventory_logs' \subseteq inventory_logs
                     /\ \A l \in inventory_logs :
                           l \notin inventory_logs'
                             <=> \E d \in mine : d.log_id = int(l.id)
                     /\ \A d \in sales_details \ mine :
                           d.log_id # None =>
                              \E l \in inventory_logs' : l.id = d.log_id.v
                ELSE /\ resp'.status = 404
                     /\ UNCHANGED <<sales, sales_details, inventory_logs>>]_vars

\* a sale was deleted while another sale keeps its detail and its log
C4_Witness ==
    /\ req.op = "delete_sale"
    /\ resp.status = 200
    /\ \A s \in sales : s.id # req.sale_id
    /\ \E s \in sales, d \in sales_details, l \in inventory_logs :
          d.sale_id = s.id /\ d.log_id = int(l.id)

\* a line that references a product without a positive quantity
NonPositive(line) ==
    /\ Truthy(line.product_id)
    /\ ~(line.quantity.t = "int" /\ line.quantity.v > 0)

\* C5: create_sale answers 400 to every request with a line that references
\* a product without a positive quantity, and so no inventory_logs row
\* written by create_sale has delta >= 0.
C5_PositiveQuantity ==
    /\ (req.op = "create_sale" /\ Admitted
          /\ \E i \in DOMAIN req.data.details : NonPositive(req.data.details[i]))
       => resp.status = 400
    /\ \A l \in inventory_logs : l.type = "s" => l.delta < 0

\* C6: a create_sale request whose customer_id is not in customers is
\* answered 400 "Customer does not exist!" and writes no row.
C6_UnknownCustomer ==
    [][(req'.op = "create_sale" /\ resp'.status \notin {401, 403}
          /\ Truthy(req'.data.customer_id)
          /\ req'.data.customer_id.v \notin CustomerIds
          /\ req'.data.details # << >>)
         => /\ resp'.status = 400
            /\ resp'.message = "Customer does not exist!"
            /\ UNCHANGED <<sales, sales_details, inventory_logs>>]_vars

(***************************************************************************)
(* Properties of the gate, checked under SpecAuth.                         *)
(***************************************************************************)
SalesOps == {"get_sales", "get_sale", "create_sale", "update_sale", "delete_sale"}

\* the role order d < r < w < a
Rank(role) ==
    CASE role = "d" -> 0 [] role = "r" -> 1 [] role = "w" -> 2 [] role = "a" -> 3

\* the role floor of each sales endpoint: read r, create and update w, delete a
Floor(op) ==
    CASE op \in {"get_sales", "get_sale"}       -> 1
      [] op \in {"create_sale", "update_sale"}  -> 2
      [] op = "delete_sale"                     -> 3

\* the identity a request carries: that of its session if the session holds
\* user_id, else that of its bearer token if active_tokens has it, else none
Caller(r, tokens) ==
    IF "user_id" \in DOMAIN r.cookie
    THEN [id |-> r.cookie["user_id"], username |-> r.cookie["username"],
          role |-> r.cookie["role"]]
    ELSE IF r.authorization.scheme = "Bearer"
            /\ r.authorization.token \in DOMAIN tokens
         THEN tokens[r.authorization.token]
         ELSE NoUser

\* C7: on every sales endpoint a resolved identity is refused with 403
\* exactly when its role is below the endpoint's floor in d < r < w < a
\* (floors: read r, create/update w, delete a), and is never answered 401:
\* r is refused on create, update and delete, w only on delete, a nowhere,
\* d everywhere.
C7_RoleOrder ==
    (req.op \in SalesOps /\ Caller(req, active_tokens) # NoUser)
      => /\ resp.status # 401
         /\ resp.status = 403
              <=> Rank(Caller(req, active_tokens).role) < Floor(req.op)

\* a writer refused on delete, with a sale to delete
C7_Witness ==
    /\ req.op = "delete_sale"
    /\ Caller(req, active_tokens).role = "w"
    /\ resp.status = 403
    /\ \E s \in sales : s.id = req.sale_id

\* C8: a request to a privileged endpoint that carries no session with
\* user_id and no bearer token of active_tokens is answered 401, never 403;
\* one whose identity resolves with an insufficient role is answered 403;
\* either way the tables, the session and active_tokens stay as they were.
C8_RefusedBeforeHandler ==
    [][req'.op \in SalesOps
         => /\ Caller(req', active_tokens) = NoUser => resp'.status = 401
            /\ (/\ Caller(req', active_tokens) # NoUser
                /\ Rank(Caller(req', active_tokens).role) < Floor(req'.op))
                 => resp'.status = 403
            /\ resp'.status \in {401, 403}
                 => UNCHANGED <<users, sales, sales_details, inventory_logs,
                                session, active_tokens>>]_vars

\* a delete with a token that was never issued, answered 401, the sale kept
C8_Witness ==
    /\ req.op = "delete_sale"
    /\ req.authorization = Bearer(0)
    /\ resp.status = 401
    /\ \E s \in sales : s.id = req.sale_id

\* the user a login request names with the right password, if any
Matching(r) ==
    {u \in users : /\ u.username = r.data.username
                   /\ u.password_hash = generate_password_hash(r.data.password)}

\* C9: a login with credentials matching a users row returns a token that
\* was not in active_tokens and now stands there for that user's id,
\* username and role; GET /api/me with only a token of active_tokens (no
\* session) returns the id, username and role the token stands for; a login
\* with an unknown username or a wrong password is answered 401 with no
\* token, adds nothing to active_tokens and leaves the session as it was.
C9_LoginTokenMe ==
    [][/\ (req'.op = "login" /\ Matching(req') # {})
            => /\ resp'.status = 200
               /\ resp'.token \notin DOMAIN active_tokens
               /\ resp'.token \in DOMAIN active_tokens'
               /\ \A u \in Matching(req') :
                     /\ resp'.user = Identity(u)
                     /\ active_tokens'[resp'.token] = Identity(u)
               /\ \A t \in DOMAIN active_tokens :
                     t \in DOMAIN active_tokens' /\ active_tokens'[t] = active_tokens[t]
       /\ (/\ req'.op = "me"
           /\ "user_id" \notin DOMAIN req'.cookie
           /\ req'.authorization.scheme = "Bearer"
           /\ req'.authorization.token \in DOMAIN active_tokens)
            => /\ resp'.status = 200
               /\ resp'.user = active_tokens[req'.authorization.token]
               /\ \E u \in users : resp'.user = Identity(u)
       /\ (/\ req'.op = "login"
           /\ req'.data.username # "" /\ req'.data.password # ""
           /\ Matching(req') = {})
            => /\ resp'.status = 401
               /\ resp'.token = 0
               /\ active_tokens' = active_tokens
               /\ session' = session]_vars

\* /api/me answered for the writer from the token alone
C9_Witness ==
    /\ req.op = "me"
    /\ "user_id" \notin DOMAIN req.cookie
    /\ resp.status = 200
    /\ resp.user.username = "wim"
    /\ resp.user.role = "w"

\* C10: after a login answered 200 the session holds exactly user_id,
\* username and role, and these are the id, username and role the issued
\* token stands for and the response names, whatever the session held before.
C10_SessionIsToken ==
    [][(req'.op = "login" /\ resp'.status = 200)
         => /\ DOMAIN session' = {"user_id", "username", "role"}
            /\ SessionUser(session') = active_tokens'[resp'.token]
            /\ SessionUser(session') = resp'.user
            /\ get_current_user(session', NoHeader, active_tokens').user
                 = get_current_user(EmptyDict, Bearer(resp'.token), active_tokens').user]_vars

\* a login as one user in the browser that held another user's session
C10_Witness ==
    /\ req.op = "login"
    /\ resp.status = 200
    /\ "user_id" \in DOMAIN req.cookie
    /\ req.cookie["user_id"] # resp.user.id
    /\ session["username"] = resp.user.username

\* a login request with both fields that matches no users row
Mismatch(r) ==
    /\ r.op = "login"
    /\ r.data.username # "" /\ r.data.password # ""
    /\ Matching(r) = {}

\* C11: a login that fails on an unknown username and one that fails on a
\* wrong password of an existing username get the same answer (status 401,
\* the same message, no token, no user) and have the same effect (none) on
\* the session and on active_tokens: nothing tells whether the name exists.
C11_SameRefusal ==
    [][Mismatch(req')
         => /\ resp' = Response(401, "Invalid credentials!")
            /\ \A c \in Credentials :
                  login_check(c[1], c[2]).status = 401
                    => login_check(c[1], c[2]) = resp'
            /\ UNCHANGED <<session, active_tokens, users, sales,
                           sales_details, inventory_logs>>]_vars

\* an existing username refused for its password, in a browser that is
\* logged in and with a token issued
C11_Witness ==
    /\ Mismatch(req)
    /\ \E u \in users : u.username = req.data.username
    /\ resp.status = 401
    /\ "user_id" \in DOMAIN session
    /\ active_tokens # EmptyDict

\* C12: logout empties the session and leaves active_tokens as it was; the
\* request after it that carries only the cookie is answered 401, and the
\* one that carries a token of active_tokens is authorized by the role the
\* token was issued with.
C12_LogoutKeepsToken ==
    [][/\ req'.op = "logout"
            => /\ session' = EmptyDict
               /\ active_tokens' = active_tokens
       /\ (req.op = "logout" /\ req'.op \in SalesOps \cup {"me"})
            => /\ req'.cookie = EmptyDict
               /\ ~IsBearer(req'.authorization) => resp'.status = 401
               /\ (/\ IsBearer(req'.authorization)
                   /\ req'.authorization.token \in DOMAIN active_tokens)
                    => /\ resp'.status # 401
                       /\ req'.op \in SalesOps =>
                            (resp'.status = 403 <=>
                               Rank(active_tokens[req'.authorization.token].role)
                                 < Floor(req'.op))]_vars

\* the logout of a logged-in browser whose user holds a token
C12_Witness ==
    /\ req.op = "logout"
    /\ "user_id" \in DOMAIN req.cookie
    /\ session = EmptyDict
    /\ \E t \in DOMAIN active_tokens : active_tokens[t].id = req.cookie["user_id"]

\* C13: no step removes an entry of active_tokens or changes its id,
\* username or role; active_tokens changes only in a login answered 200,
\* and such a login adds exactly one entry.
C13_TokensOnlyGrow ==
    [][/\ \A t \in DOMAIN active_tokens :
             /\ t \in DOMAIN active_tokens'
             /\ active_tokens'[t] = active_tokens[t]
       /\ active_tokens' # active_tokens
            => req'.op = "login" /\ resp'.status = 200
       /\ (req'.op = "login" /\ resp'.status = 200)
            => Cardinality(DOMAIN active_tokens')
                 = Cardinality(DOMAIN active_tokens) + 1]_vars

\* two entries kept across a logout
C13_Witness ==
    /\ req.op = "logout"
    /\ Cardinality(DOMAIN active_tokens) = 2


(***************************************************************************)
(* Properties of overlapping requests, checked under SpecRace.             *)
(***************************************************************************)
\* a delete_sale answered 200 that removed the whole sale it names (header,
\* details and the logs those referenced) and nothing else
WholeSaleDeleted ==
    LET id   == req'.sale_id
        mine == {d \in sales_details : d.sale_id = id}
    IN  /\ req'.op = "delete_sale" /\ resp'.status = 200
        /\ \E s \in sales : s.id = id
        /\ sales' = {s \in sales : s.id # id}
        /\ sales_details' = sales_details \ mine
        /\ inventory_logs' =
              {l \in inventory_logs : ~\E d \in mine : d.log_id = int(l.id)}

\* a create_sale answered 201 that added the header with every detail and log
WholeSaleCreated ==
    /\ req'.op = "create_sale" /\ resp'.status = 201
    /\ CreatedRows(Len(req'.data.details))

\* C14: with requests of several callers overlapping, the tables change
\* only by a whole sale appearing (create_sale, 201) or a whole sale
\* disappearing (delete_sale, 200: header, details and the logs of those
\* details, nothing of another sale), so a delete_sale answered 404 changes
\* nothing; and a get_sale answered 200 shows a sale with its details, each
\* detail that carries a log id with the product of its log.
C14_AtomicRequests ==
    [][/\ <<sales, sales_details, inventory_logs>>'
             # <<sales, sales_details, inventory_logs>>
            => WholeSaleCreated \/ WholeSaleDeleted
       /\ (req'.op = "get_sale" /\ resp'.status = 200)
            => /\ resp'.rows.details # << >>
               /\ \A i \in DOMAIN resp'.rows.details :
                     resp'.rows.details[i].log_id # None
                       => resp'.rows.details[i].product_id # None]_vars


(***************************************************************************)
(* Further properties of the ledger, checked under SpecSales.              *)
(***************************************************************************)
\* C15: an update_sale request that the wrapper admits leaves sales_details
\* and inventory_logs as they were, every other sale as it was, and the
\* addressed sale as it was but for customer_id; it is answered 404, with
\* nothing changed, when the sale id does not exist, and 400, with nothing
\* changed, when the body names no updatable field or names a customer that
\* does not exist.
C15_UpdateFrame ==
    [][(req'.op = "update_sale" /\ resp'.status \notin {401, 403})
         => LET id   == req'.sale_id
                data == req'.data
            IN  /\ UNCHANGED <<sales_details, inventory_logs>>
                /\ \A s \in sales : s.id # id => s \in sales'
                /\ \A t \in sales' :
                      \E s \in sales : /\ s.id = t.id
                                       /\ s.user_id = t.user_id
                                       /\ s.id # id => s = t
                /\ (~\E s \in sales : s.id = id)
                     => resp'.status = 404 /\ sales' = sales
                /\ ((\E s \in sales : s.id = id)
                      /\ "customer_id" \notin DOMAIN data)
                     => resp'.status = 400 /\ sales' = sales
                /\ ((\E s \in sales : s.id = id)
                      /\ "customer_id" \in DOMAIN data
                      /\ data["customer_id"].v \notin CustomerIds)
                     => resp'.status = 400 /\ sales' = sales]_vars


(***************************************************************************)
(* Property of the bootstrap, checked under SpecBoot.                      *)
(***************************************************************************)
\* the account the bootstrap creates
DefaultAdmin(u) == u.username = "admin" /\ u.role = "a"

\* C16: the bootstrap adds a default admin account (username admin, role
\* a) exactly when users holds no row of role a, adds nothing else and
\* removes nothing, and so leaves users with a row of role a, also when a
\* user of another role is named admin.
C16_BootstrapAdmin ==
    [][("init_database" \in before_request_funcs
          /\ "init_database" \notin before_request_funcs')
         => /\ users \subseteq users'
            /\ (\E u \in users' \ users : DefaultAdmin(u))
                 <=> ~\E u \in users : u.role = "a"
            /\ \A u \in users' \ users : DefaultAdmin(u)
            /\ \E u \in users' : u.role = "a"]_vars


(***************************************************************************)
(* The round trip, checked under SpecSales.                                *)
(***************************************************************************)
\* what get_sale is to show of line i of a create_sale request
Shown(line, row) ==
    /\ row.subtotal_cents = line.subtotal_cents
    /\ row.note = line.note
    /\ IF Truthy(line.product_id)
       THEN row.product_id = line.product_id /\ row.quantity = line.quantity
       ELSE row.product_id = None /\ row.quantity = None

\* C17: a get_sale of the id a create_sale has just returned with 201 is
\* answered 200 with the request's customer_id, the acting user's id and
\* one detail per line of the request, in the order of the request: each
\* with its line's subtotal_cents and note, with the line's product_id and
\* quantity if the line references a product, with both null if not.
C17_RoundTrip ==
    [][(/\ req.op = "create_sale" /\ resp.status = 201
        /\ req'.op = "get_sale" /\ req'.sale_id = resp.id
        /\ resp'.status \notin {401, 403})
         => /\ resp'.status = 200
            /\ resp'.rows.id = resp.id
            /\ resp'.rows.customer_id = req.data.customer_id
            /\ resp'.rows.user_id = Caller(req, active_tokens).id
            /\ Len(resp'.rows.details) = Len(req.data.details)
            /\ \A i \in DOMAIN req.data.details :
                  Shown(req.data.details[i], resp'.rows.details[i])]_vars

\* a sale read back with a line without product before a line with one
C17_Witness ==
    /\ req.op = "get_sale"
    /\ resp.status = 200
    /\ Len(resp.rows.details) = 2
    /\ resp.rows.details[1].product_id = None
    /\ resp.rows.details[2].product_id = int(1)
    /\ resp.rows.details[2].quantity = int(2)


(***************************************************************************)
(* Further properties of the gate, checked under SpecAuth.                 *)
(***************************************************************************)
\* C18: for every session and Authorization header, privileged,
\* get_current_user and create_sale resolve the same identity: that of the
\* session if it holds user_id, otherwise that of the bearer token.  So
\* the user_id of a sale created with 201 is the id of the identity whose
\* role passed the w-level check, and with a session and a token of
\* different users it is the session's.
C18_OneIdentity ==
    /\ \A h \in Headers :
          LET user_data == wrapper_user_data(session, h, active_tokens)
          IN  /\ get_current_user(session, h, active_tokens).user = user_data
              /\ sale_user_id(session, h, active_tokens) = user_data.id
              /\ "user_id" \in DOMAIN session
                   => user_data = SessionUser(session)
    /\ (req.op = "create_sale" /\ resp.status = 201)
         => /\ Rank(Caller(req, active_tokens).role) >= Floor("create_sale")
            /\ \E s \in sales :
                  /\ s.id = resp.id
                  /\ s.user_id = Caller(req, active_tokens).id
                  /\ "user_id" \in DOMAIN req.cookie
                       => s.user_id = req.cookie["user_id"]

\* a sale created from the writer's session while the request carried the
\* administrator's token: it is the writer's
C18_Witness ==
    /\ req.op = "create_sale"
    /\ resp.status = 201
    /\ "user_id" \in DOMAIN req.cookie
    /\ req.cookie["username"] = "wim"
    /\ IsBearer(req.authorization)
    /\ req.authorization.token \in DOMAIN active_tokens
    /\ active_tokens[req.authorization.token].username = "admin"
    /\ \E s \in sales : s.id = resp.id /\ s.user_id = req.cookie["user_id"]


(***************************************************************************)
(* Property of the gate while roles change, checked under SpecRoles.       *)
(***************************************************************************)
\* C19: whatever users holds now, a request is refused or admitted by the
\* role its session, or else its token, was given at login: 403 exactly
\* when that role is below the endpoint's floor, never 401.  A change of
\* users leaves the session and active_tokens as they were; the session
\* changes only in a login or logout, and an entry of active_tokens never.
C19_RoleOfLogin ==
    [][/\ (req'.op \in SalesOps /\ Caller(req', active_tokens) # NoUser)
            => /\ resp'.status # 401
               /\ resp'.status = 403
                    <=> Rank(Caller(req', active_tokens).role) < Floor(req'.op)
       /\ users' # users => UNCHANGED <<session, active_tokens>>
       /\ session' # session => req'.op \in {"login", "logout"}
       /\ \A t \in DOMAIN active_tokens :
             t \in DOMAIN active_tokens' /\ active_tokens'[t] = active_tokens[t]]_vars

\* a sale created with the role w of a login, by a user whom users no
\* longer holds with that role
C19_Witness ==
    /\ req.op = "create_sale"
    /\ resp.status = 201
    /\ Caller(req, active_tokens).role = "w"
    /\ ~\E u \in users : u.id = Caller(req, active_tokens).id /\ u.role = "w"

=============================================================================
